---- MODULE Spec2Model ----
(***************************************************************************)
(* A model of docs/publish.py: the pipeline that turns a document into a   *)
(* blog post page and splices a summary entry into index.html.             *)
(*                                                                         *)
(* Text is a sequence of tokens (strings).  User text is kept character by *)
(* character: each character is a token of its own, a non-ASCII character  *)
(* being written by its code point ("U+6458").  A literal piece of the     *)
(* page templates is one token, and so is an entity produced by escape.    *)
(***************************************************************************)
EXTENDS Naturals, Integers, Sequences, FiniteSets, TLC

VARIABLES
    pc,         \* position of main()
    args,       \* the parsed command line: docx, date, tags, slug
    fs,         \* the file system: file name -> content
    md,         \* markdown returned by docx_to_markdown
    article,    \* the dict returned by parse_article, as main keeps it
    body_html,  \* blocks returned by md_to_html
    toc,        \* entries returned by extract_toc
    tags,       \* the tag list of main
    slug,       \* the slug of main
    stdout,     \* the messages printed by the current run
    trace,      \* the calls and file writes of the current run, in order
    runs,       \* completed invocations of the program
    exit_code   \* exit status of the last finished run, -1 while none

vars == <<pc, args, fs, md, article, body_html, toc, tags, slug,
          stdout, trace, runs, exit_code>>

(***************************************************************************)
(* Characters                                                              *)
(***************************************************************************)
LowerLetters == <<"a","b","c","d","e","f","g","h","i","j","k","l","m",
                  "n","o","p","q","r","s","t","u","v","w","x","y","z">>
UpperLetters == <<"A","B","C","D","E","F","G","H","I","J","K","L","M",
                  "N","O","P","Q","R","S","T","U","V","W","X","Y","Z">>
Digits == {"0","1","2","3","4","5","6","7","8","9"}

Range(s) == {s[i] : i \in DOMAIN s}

\* Sample ideographs of the range U+4E00..U+9FFF.
CJK == {"U+6458", "U+8981", "U+6D4B", "U+8BD5"}

\* The characters str.strip() removes and \s matches.
Whitespace == {" ", "\t", "\n", "\r"}

\* str.lower() on one character.
LowerChar(c) ==
    IF c \in Range(UpperLetters)
    THEN LowerLetters[CHOOSE i \in DOMAIN UpperLetters : UpperLetters[i] = c]
    ELSE c

Lower(s) == [i \in DOMAIN s |-> LowerChar(s[i])]

\* The class [\w U+4E00-U+9FFF] of the slug patterns.
IsWord(c) ==
    c \in Range(LowerLetters) \cup Range(UpperLetters) \cup Digits \cup {"_"} \cup CJK

(***************************************************************************)
(* String operations of the Python library, on token sequences             *)
(***************************************************************************)
Drop(s, n) == SubSeq(s, n + 1, Len(s))

Take(s, n) == SubSeq(s, 1, IF n < Len(s) THEN n ELSE Len(s))

StartsWith(s, p) == Len(p) <= Len(s) /\ SubSeq(s, 1, Len(p)) = p

\* Positions at which sub occurs in s.
Occurrences(s, sub) ==
    {i \in 1..(Len(s) + 1 - Len(sub)) : SubSeq(s, i, i + Len(sub) - 1) = sub}

Contains(s, sub) == Occurrences(s, sub) # {}

\* str.find, 1-based; 0 when absent.
Find(s, sub) ==
    IF Contains(s, sub)
    THEN CHOOSE i \in Occurrences(s, sub) : \A j \in Occurrences(s, sub) : i <= j
    ELSE 0

RECURSIVE LStrip(_, _)
LStrip(s, cs) ==
    IF s # <<>> /\ Head(s) \in cs THEN LStrip(Tail(s), cs) ELSE s

RECURSIVE RStrip(_, _)
RStrip(s, cs) ==
    IF s # <<>> /\ s[Len(s)] \in cs THEN RStrip(SubSeq(s, 1, Len(s) - 1), cs) ELSE s

\* str.strip(chars)
StripChars(s, cs) == RStrip(LStrip(s, cs), cs)

\* str.strip()
Strip(s) == StripChars(s, Whitespace)

\* str.split(sep)
RECURSIVE Split(_, _)
Split(s, sep) ==
    LET i == Find(s, sep)
    IN  IF i = 0 THEN <<s>>
        ELSE <<SubSeq(s, 1, i - 1)>> \o Split(Drop(s, i + Len(sep) - 1), sep)

\* sep.join(parts)
RECURSIVE Join(_, _)
Join(parts, sep) ==
    IF parts = <<>> THEN <<>>
    ELSE IF Len(parts) = 1 THEN parts[1]
    ELSE parts[1] \o sep \o Join(Tail(parts), sep)

\* str.replace(old, new, 1)
ReplaceFirst(s, old, new) ==
    LET i == Find(s, old)
    IN  IF i = 0 THEN s
        ELSE SubSeq(s, 1, i - 1) \o new \o Drop(s, i + Len(old) - 1)

\* str.replace(old, new)
RECURSIVE ReplaceAll(_, _, _)
ReplaceAll(s, old, new) ==
    LET i == Find(s, old)
    IN  IF i = 0 THEN s
        ELSE SubSeq(s, 1, i - 1) \o new \o ReplaceAll(Drop(s, i + Len(old) - 1), old, new)

\* html.escape(s, quote=False): the quotes are left as they are.
EscapeCharUnquoted(c) ==
    CASE c = "&"  -> "&amp;"
      [] c = "<"  -> "&lt;"
      [] c = ">"  -> "&gt;"
      [] OTHER    -> c

escape_unquoted(s) == [i \in DOMAIN s |-> EscapeCharUnquoted(s[i])]

\* html.escape(s), quote=True: one entity token per special character.
EscapeChar(c) ==
    CASE c = "&"  -> "&amp;"
      [] c = "<"  -> "&lt;"
      [] c = ">"  -> "&gt;"
      [] c = "\"" -> "&quot;"
      [] c = "'"  -> "&#x27;"
      [] OTHER    -> c

escape(s) == [i \in DOMAIN s |-> EscapeChar(s[i])]

\* re.sub(r'[^\w U+4E00-U+9FFF]+', '-', s): every run of other characters
\* becomes one hyphen.
RECURSIVE SubNonWord(_)
SubNonWord(s) ==
    IF s = <<>> THEN <<>>
    ELSE IF IsWord(Head(s)) THEN <<Head(s)>> \o SubNonWord(Tail(s))
    ELSE <<"-">> \o SubNonWord(LStrip(s, {c \in Range(s) : ~IsWord(c)}))

(***************************************************************************)
(* parse_article                                                           *)
(***************************************************************************)
NL == <<"\n">>

HeadingPrefix == <<"#", " ">>

IsHeadingLine(line) == StartsWith(line, HeadingPrefix)

\* The loop without its break: the last line starting with "# ".
FirstHeadingNoBreak(lines) ==
    IF \E i \in DOMAIN lines : IsHeadingLine(lines[i])
    THEN CHOOSE i \in DOMAIN lines :
            /\ IsHeadingLine(lines[i])
            /\ \A j \in (i + 1)..Len(lines) : ~IsHeadingLine(lines[j])
    ELSE 0

\* The loop of parse_article: index (from 1) of the first line starting
\* with "# ", or 0 when the loop ends without a break.
FirstHeading(lines) ==
    IF \E i \in DOMAIN lines : IsHeadingLine(lines[i])
    THEN CHOOSE i \in DOMAIN lines :
            /\ IsHeadingLine(lines[i])
            /\ \A j \in 1..(i - 1) : ~IsHeadingLine(lines[j])
    ELSE 0

\* title_idx starting before the first line: nothing is skipped when no
\* heading is found.
TitleIdxBeforeFirst(lines) == FirstHeading(lines)

\* title_idx, counted from 1: it keeps its initial value (the first line)
\* when no heading is found.
TitleIdx(lines) == IF FirstHeading(lines) = 0 THEN 1 ELSE FirstHeading(lines)

Colons == {":", "U+FF1A"}

\* re.sub(r'^(U+6458 U+8981[U+FF1A:]|Abstract[U+FF1A:])\s*', '', first,
\*        flags=re.IGNORECASE)
StripLabel(first) ==
    LET zh == <<"U+6458", "U+8981">>
        en == <<"a","b","s","t","r","a","c","t">>
        n  == IF StartsWith(first, zh) THEN Len(zh)
              ELSE IF StartsWith(Lower(first), en) THEN Len(en)
              ELSE 0
    IN  IF n > 0 /\ Len(first) > n /\ first[n + 1] \in Colons
        THEN LStrip(Drop(first, n + 1), Whitespace)
        ELSE first

parse_article(m) ==
    LET lines      == Split(Strip(m), NL)
        h          == FirstHeading(lines)
        title      == IF h = 0 THEN <<>> ELSE Strip(Drop(lines[h], Len(HeadingPrefix)))
        remaining  == Strip(Join(Drop(lines, TitleIdx(lines)), NL))
        paragraphs == Split(remaining, NL \o NL)
        first      == Strip(paragraphs[1])
        isAbstract == /\ first # <<>>
                      /\ ~StartsWith(first, <<"#">>)
                      /\ ~StartsWith(first, <<"U+0060", "U+0060", "U+0060">>)
    IN  [title    |-> title,
         abstract |-> IF isAbstract THEN StripLabel(first) ELSE <<>>,
         body_md  |-> Join(IF isAbstract THEN Tail(paragraphs) ELSE paragraphs,
                           NL \o NL)]

(***************************************************************************)
(* slugify                                                                 *)
(***************************************************************************)
SlugMax == 60

slugify(title) == Take(StripChars(SubNonWord(Lower(title)), {"-"}), SlugMax)

(***************************************************************************)
(* md_to_html and extract_toc                                              *)
(*                                                                         *)
(* The HTML fragment is kept as its sequence of block elements: a record   *)
(* [tag, has_id, id, content].  PandocHtml stands for the external         *)
(* converter: one element per paragraph of the markdown, "## " and "### "  *)
(* paragraphs becoming h2 and h3 without attributes, the text escaped      *)
(* character by character.                                                 *)
(***************************************************************************)
PandocChar(c) ==
    CASE c = "&"  -> <<"&", "a", "m", "p", ";">>
      [] c = "<"  -> <<"&", "l", "t", ";">>
      [] c = ">"  -> <<"&", "g", "t", ";">>
      [] c = "\"" -> <<"&", "q", "u", "o", "t", ";">>
      [] OTHER    -> <<c>>

RECURSIVE PandocText(_)
PandocText(s) ==
    IF s = <<>> THEN <<>> ELSE PandocChar(Head(s)) \o PandocText(Tail(s))

PandocElement(p) ==
    LET q == Strip(p)
    IN  IF StartsWith(q, <<"#", "#", " ">>)
        THEN [tag |-> "h2", has_id |-> FALSE, id |-> <<>>,
              content |-> PandocText(Strip(Drop(q, 3)))]
        ELSE IF StartsWith(q, <<"#", "#", "#", " ">>)
        THEN [tag |-> "h3", has_id |-> FALSE, id |-> <<>>,
              content |-> PandocText(Strip(Drop(q, 4)))]
        ELSE [tag |-> "p", has_id |-> FALSE, id |-> <<>>,
              content |-> PandocText(q)]

IsBlank(p) == Strip(p) = <<>>

NonBlank(p) == ~IsBlank(p)

PandocHtml(m) ==
    LET paras == SelectSeq(Split(m, NL \o NL), NonBlank)
    IN  [i \in DOMAIN paras |-> PandocElement(paras[i])]

Headings == {"h2", "h3"}

\* add_id: the id of an h2/h3 element that carries no attribute.
add_id(e) ==
    IF e.tag \in Headings /\ ~e.has_id
    THEN [e EXCEPT !.has_id = TRUE,
                   !.id = StripChars(SubNonWord(Lower(e.content)), {"-"})]
    ELSE e

md_to_html(m) ==
    LET html == PandocHtml(m)
    IN  [i \in DOMAIN html |-> add_id(html[i])]

\* The pattern of extract_toc wants an id of at least one character.
InToc(e) == e.tag \in Headings /\ e.has_id /\ e.id # <<>>

extract_toc(html) ==
    LET hs == SelectSeq(html, InToc)
    IN  [i \in DOMAIN hs |-> [level |-> hs[i].tag, id |-> hs[i].id, text |-> hs[i].content]]

\* The fragment as text.
ElementTokens(e) ==
    CASE e.tag = "p" -> <<"<p>">> \o e.content \o <<"</p>">>
      [] e.tag = "h2" /\ e.has_id  -> <<"<h2 id=\"">> \o e.id \o <<"\">">> \o e.content \o <<"</h2>">>
      [] e.tag = "h2" /\ ~e.has_id -> <<"<h2>">> \o e.content \o <<"</h2>">>
      [] e.tag = "h3" /\ e.has_id  -> <<"<h3 id=\"">> \o e.id \o <<"\">">> \o e.content \o <<"</h3>">>
      [] e.tag = "h3" /\ ~e.has_id -> <<"<h3>">> \o e.content \o <<"</h3>">>

HtmlTokens(html) == Join([i \in DOMAIN html |-> ElementTokens(html[i])], NL)

\* re.sub(r'<[^>]+>', '', body_html)
HtmlText(html) == Join([i \in DOMAIN html |-> html[i].content], NL)

(***************************************************************************)
(* generate_post_html                                                      *)
(***************************************************************************)
render_toc(t) ==
    LET item(e) ==
            <<IF e.level = "h3" THEN "      <li class=\"toc-item sub\"><a href=\"#"
                                ELSE "      <li class=\"toc-item\"><a href=\"#">>
            \o e.id \o <<"\">">> \o escape(e.text) \o <<"</a></li>">>
    IN  <<"\n    <div class=\"toc-title\">// U+76EE U+5F55</div>\n    <ul class=\"toc-list\" id=\"toc\">\n">>
        \o Join([i \in DOMAIN t |-> item(t[i])], NL)
        \o <<"\n    </ul>\n">>

TagChipHl == "<span class=\"tag hl\">"

TagChipPlain == "<span class=\"tag\">"

\* The chip of the i-th tag of the post page.
TagChip(tg, i) == <<TagChipHl>> \o escape(tg[i]) \o <<"</span>">>

render_tags(tg) ==
    IF tg = <<>> THEN <<>>
    ELSE <<"<div class=\"post-tags\">">>
         \o Join([i \in DOMAIN tg |-> TagChip(tg, i)], <<>>)
         \o <<"</div>">>

WordsPerMinute == 300

\* max(1, round(word_count / 300)); round() rounds a half to the even side.
ReadingMin(word_count) ==
    LET q == word_count \div WordsPerMinute
        r == word_count % WordsPerMinute
        up == 2 * r > WordsPerMinute \/ (2 * r = WordsPerMinute /\ q % 2 = 1)
        n == IF up THEN q + 1 ELSE q
    IN  IF n < 1 THEN 1 ELSE n

generate_post_html(art, tg, date_str, html, t) ==
    LET title_esc    == escape(art.title)
        abstract_esc == IF art.abstract # <<>> THEN escape(art.abstract) ELSE <<>>
        toc_html     == IF t # <<>> THEN render_toc(t) ELSE <<>>
        tags_html    == render_tags(tg)
        reading_min  == ReadingMin(Len(HtmlText(html)))
        desc_block   == IF abstract_esc # <<>>
                        THEN <<"<div class=\"post-desc\">">> \o abstract_esc \o <<"</div>">>
                        ELSE <<>>
    IN  <<"<!DOCTYPE html>\n<html lang=\"zh\">\n<head>... <title>">>
        \o title_esc
        \o <<" U+00B7 U+6DF1 U+6E0A U+7814 U+7A76 U+5BA4</title> ...<style>...</style>\n</head>\n<body>... <div class=\"post-meta\">\n      <div class=\"post-date\">">>
        \o date_str
        \o <<" U+00B7 U+9884 U+8BA1 U+9605 U+8BFB ", ToString(reading_min),
             " U+5206 U+949F</div>\n      <h1 class=\"post-title\">">>
        \o title_esc
        \o <<"</h1>\n      ">>
        \o tags_html
        \o <<"\n      ">>
        \o desc_block
        \o <<"\n    </div>\n    <div class=\"divider\"></div>\n    <div class=\"prose\" id=\"prose\">\n">>
        \o HtmlTokens(html)
        \o <<"\n    </div>... </article>\n  <aside class=\"toc-sidebar\">\n    ">>
        \o toc_html
        \o <<"\n  </aside>\n</div>\n<script>...</script>\n</body>\n</html>">>

(***************************************************************************)
(* update_index                                                            *)
(***************************************************************************)
marker == <<"<div", " class=", "\"post-list\">">>

ExcerptMax == 120

Ellipsis == "U+2026"

MidDot == <<" ", "U+00B7", " ">>

PostTagFeatured == "<span class=\"post-tag  featured\">"

PostTagPlain == "<span class=\"post-tag\">"

FeaturedTags == 2

\* The chip of the i-th tag of the index entry (i counted from 1).
IndexChip(tg, i) ==
    <<IF i - 1 < FeaturedTags THEN PostTagFeatured ELSE PostTagPlain>>
    \o escape(tg[i]) \o <<"</span>">>

YearPrefix == 5

\* date_display[5:]
date_shown(date_str) == Drop(ReplaceAll(date_str, <<"-">>, MidDot), YearPrefix)

PostDateOpen == "\">\n          <div class=\"post-date\">"

PostDateClose == "</div>\n          <div class=\"post-content\">\n            <div class=\"post-title\">"

EntryOpen == "        <a href=\""

EntryClose == "</div>\n          </div>\n        </a>"

new_item(post_filename, title, abstract, tg, date_str) ==
    LET tags_html == Join([i \in DOMAIN tg |-> IndexChip(tg, i)], <<>>)
        excerpt   == IF Len(abstract) > ExcerptMax
                     THEN Take(abstract, ExcerptMax) \o <<Ellipsis>>
                     ELSE abstract
    IN  <<EntryOpen>> \o post_filename
        \o <<"\" class=\"post-item\" data-title=\"">> \o escape(title)
        \o <<"\" data-tags=\"">> \o escape(Join(tg, <<" ">>))
        \o <<PostDateOpen>> \o date_shown(date_str)
        \o <<PostDateClose>> \o escape(title)
        \o <<"</div>\n            <div class=\"post-excerpt\">">> \o escape(excerpt)
        \o <<"</div>\n            <div class=\"post-tags\">">> \o tags_html
        \o <<EntryClose>>

\* The entry put in front of the marker instead of behind it.
splice_before(html, item) == ReplaceFirst(html, marker, item \o NL \o marker)

\* The document update_index writes when the marker is found.
splice(html, item) == ReplaceFirst(html, marker, marker \o NL \o item)

(***************************************************************************)
(* main                                                                    *)
(***************************************************************************)
IndexPath == <<"index.html">>

\* Path.stem of a path whose last token is its suffix.
Stem(path) == SubSeq(path, 1, Len(path) - 1)

PostFilename(sl) == sl \o <<".html">>

\* A file opened for appending: an existing file keeps its content.
WriteTextAppend(f, name, content) ==
    [n \in DOMAIN f \cup {name} |->
        IF n = name THEN (IF name \in DOMAIN f THEN f[name] ELSE <<>>) \o content
        ELSE f[n]]

\* Path.write_text: create or overwrite.
WriteText(f, name, content) ==
    [n \in DOMAIN f \cup {name} |-> IF n = name THEN content ELSE f[n]]

\* tags = [t.strip() for t in args.tags.split(",") if t.strip()]
ParseTags(s) ==
    LET parts == Split(s, <<",">>)
    IN  SelectSeq([i \in DOMAIN parts |-> Strip(parts[i])], NonBlank)

EmptyArticle == [title |-> <<>>, abstract |-> <<>>, body_md |-> <<>>]

\* update_index creating the index it does not find.
update_index_creating(f, post_filename, title, abstract, tg, date_str) ==
    LET item == new_item(post_filename, title, abstract, tg, date_str)
        html == IF IndexPath \in DOMAIN f THEN f[IndexPath] ELSE marker
    IN  IF Contains(html, marker)
        THEN [fs |-> WriteText(f, IndexPath, splice(html, item)),
              out |-> <<"index.html updated">>,
              writes |-> <<"write index.html">>]
        ELSE [fs |-> f,
              out |-> <<"warn: insertion point not found, add to index.html by hand">>,
              writes |-> <<>>]

\* update_index, as a function of the file system: the file system it
\* leaves, what it prints and the writes it makes.
update_index(f, post_filename, title, abstract, tg, date_str) ==
    IF IndexPath \notin DOMAIN f
    THEN [fs |-> f, out |-> <<"warn: index.html not found, update skipped">>,
          writes |-> <<>>]
    ELSE LET html == f[IndexPath]
             item == new_item(post_filename, title, abstract, tg, date_str)
         IN  IF Contains(html, marker)
             THEN [fs |-> WriteText(f, IndexPath, splice(html, item)),
                   out |-> <<"index.html updated">>,
                   writes |-> <<"write index.html">>]
             ELSE [fs |-> f,
                   out |-> <<"warn: insertion point not found, add to index.html by hand">>,
                   writes |-> <<>>]

\* The source path does not exist: message, exit 1.
InputNotFound ==
    /\ pc = "start"
    /\ args.docx \notin DOMAIN fs
    /\ stdout' = Append(stdout, "error: file does not exist")
    /\ exit_code' = 1
    /\ pc' = "failed"
    /\ UNCHANGED <<args, fs, md, article, body_html, toc, tags, slug, trace, runs>>

StartRun ==
    /\ pc = "start"
    /\ args.docx \in DOMAIN fs
    /\ tags' = ParseTags(args.tags)
    /\ stdout' = stdout \o <<"processing", "parsing docx">>
    /\ pc' = "convert"
    /\ UNCHANGED <<args, fs, md, article, body_html, toc, slug, trace, runs, exit_code>>

\* Step 1, docx_to_markdown: the document's markdown, as the converter
\* gives it, is the content kept for the document in fs.
ConvertDocx ==
    /\ pc = "convert"
    /\ md' = fs[args.docx]
    /\ trace' = Append(trace, "docx_to_markdown")
    /\ pc' = "parse"
    /\ UNCHANGED <<args, fs, article, body_html, toc, tags, slug, stdout, runs, exit_code>>

\* check=True: a failing converter raises, and nothing catches it.
ConvertDocxFails ==
    /\ pc = "convert"
    /\ trace' = Append(trace, "docx_to_markdown: CalledProcessError")
    /\ exit_code' = 1
    /\ pc' = "failed"
    /\ UNCHANGED <<args, fs, md, article, body_html, toc, tags, slug, stdout, runs>>

\* Step 2
ParseArticle ==
    /\ pc = "parse"
    /\ article' = parse_article(md)
    /\ trace' = Append(trace, "parse_article")
    /\ pc' = "title"
    /\ UNCHANGED <<args, fs, md, body_html, toc, tags, slug, stdout, runs, exit_code>>

TitleFallback ==
    /\ pc = "title"
    /\ IF article.title = <<>>
       THEN /\ article' = [article EXCEPT !.title = Stem(args.docx)]
            /\ stdout' = stdout \o <<"warn: no title found", "title", "abstract", "converting to HTML">>
       ELSE /\ article' = article
            /\ stdout' = stdout \o <<"title", "abstract", "converting to HTML">>
    /\ pc' = "render"
    /\ UNCHANGED <<args, fs, md, body_html, toc, tags, slug, trace, runs, exit_code>>

\* The converter called without check=True: its failure goes unnoticed
\* and the run goes on with an empty fragment.
RenderBodyFailureIgnored ==
    /\ pc = "render"
    /\ body_html' = <<>>
    /\ trace' = Append(trace, "md_to_html: CalledProcessError")
    /\ pc' = "toc"
    /\ UNCHANGED <<args, fs, md, article, toc, tags, slug, stdout, runs, exit_code>>

\* Step 3
RenderBody ==
    /\ pc = "render"
    /\ body_html' = md_to_html(article.body_md)
    /\ trace' = Append(trace, "md_to_html")
    /\ pc' = "toc"
    /\ UNCHANGED <<args, fs, md, article, toc, tags, slug, stdout, runs, exit_code>>

RenderBodyFails ==
    /\ pc = "render"
    /\ trace' = Append(trace, "md_to_html: CalledProcessError")
    /\ exit_code' = 1
    /\ pc' = "failed"
    /\ UNCHANGED <<args, fs, md, article, body_html, toc, tags, slug, stdout, runs>>

ExtractToc ==
    /\ pc = "toc"
    /\ toc' = extract_toc(body_html)
    /\ trace' = Append(trace, "extract_toc")
    /\ stdout' = Append(stdout, "toc entries")
    /\ pc' = "slug"
    /\ UNCHANGED <<args, fs, md, article, body_html, tags, slug, runs, exit_code>>

\* Step 4
MakeSlug ==
    /\ pc = "slug"
    /\ slug' = IF args.slug # <<>> THEN args.slug ELSE slugify(article.title)
    /\ pc' = "compose"
    /\ UNCHANGED <<args, fs, md, article, body_html, toc, tags, stdout, trace, runs, exit_code>>

\* Step 5
WritePost ==
    /\ pc = "compose"
    /\ fs' = WriteText(fs, PostFilename(slug),
                       generate_post_html(article, tags, args.date, body_html, toc))
    /\ trace' = trace \o <<"generate_post_html", "write post">>
    /\ stdout' = stdout \o <<"generated", "updating index.html">>
    /\ pc' = "index"
    /\ UNCHANGED <<args, md, article, body_html, toc, tags, slug, runs, exit_code>>

\* Step 6, and the end of main.
UpdateIndex ==
    /\ pc = "index"
    /\ LET r == update_index(fs, PostFilename(slug), article.title,
                             article.abstract, tags, args.date)
       IN  /\ fs' = r.fs
           /\ stdout' = stdout \o r.out \o <<"published", "next steps">>
           /\ trace' = trace \o <<"update_index">> \o r.writes
    /\ exit_code' = 0
    /\ runs' = runs + 1
    /\ pc' = "done"
    /\ UNCHANGED <<args, md, article, body_html, toc, tags, slug>>

MaxRuns == 2

\* The same command line is run again.
RunAgain ==
    /\ pc \in {"done", "failed"}
    /\ runs < MaxRuns
    /\ pc' = "start"
    /\ md' = <<>>
    /\ article' = EmptyArticle
    /\ body_html' = <<>>
    /\ toc' = <<>>
    /\ tags' = <<>>
    /\ slug' = <<>>
    /\ stdout' = <<>>
    /\ trace' = <<>>
    /\ exit_code' = -1
    /\ UNCHANGED <<args, fs, runs>>

(***************************************************************************)
(* Inputs                                                                  *)
(***************************************************************************)
RECURSIVE Rep(_, _)
Rep(c, n) == IF n = 0 THEN <<>> ELSE <<c>> \o Rep(c, n - 1)

DocxPath == <<"m", "y", "<", "p", ".docx">>

\* "# Test", an abstract with its label, a section, a body paragraph.
DocScenario ==
    Join(<< <<"#", " ", "T", "e", "s", "t">>,
            <<"U+6458", "U+8981", "U+FF1A", "a", " ", "s", "h", "o", "r", "t", " ",
              "a", "b", "s", "t", "r", "a", "c", "t">>,
            <<"#", "#", " ", "S", "e", "c", "t", "i", "o", "n">>,
            <<"b", "o", "d", "y", " ", "t", "e", "x", "t">> >>, NL \o NL)

\* Markup characters in the title, the abstract and the body.
DocMarkup ==
    Join(<< <<"#", " ", "<", "b", ">", "&", "\"", "Q", "\"">>,
            <<"x", "<", "y">>,
            <<"A", "T", "&", "T", " ", ">", " ", "a", "l", "l">> >>, NL \o NL)

\* No top-level heading.
DocNoTitle ==
    Join(<< <<"i", "n", "t", "r", "o", " ", "l", "i", "n", "e">>,
            <<"A", "b", "s", "t", "r", "a", "c", "t", ":", " ", "i", "t", "'", "s">>,
            <<"#", "#", "#", " ", "S", "u", "b">>,
            <<"#", "#", " ", "!", "!", "!">> >>, NL \o NL)

\* An abstract longer than the excerpt.
DocLong ==
    Join(<< <<"#", " ", "L", "o", "n", "g">>, Rep("x", ExcerptMax) \o <<"&">> >>, NL \o NL)

\* A title and nothing else.
DocTitleOnly == <<"#", " ", "A", "_", "b", " ", "C", "\n">>

Docs == {DocScenario, DocMarkup, DocNoTitle, DocLong, DocTitleOnly}

TagArgs ==
    { <<>>,
      <<"l", "l", "m", ",", "d", "a", "t", "a">>,
      <<" ", "a", "<", "b", " ", ",", " ", ",", "c", "&", "d", ",", "e", "\"", "f", ",", " ", "g">> }

Dates ==
    { <<"2", "0", "2", "5", "-", "0", "2", "-", "0", "1">>,
      <<"2", "0", "2", "4", "-", "1", "2", "-", "3", "1">> }

SlugArgs == { <<>>, <<"m", "y", "-", "p", "o", "s", "t">> }

OldEntry == <<"        <a href=\"old.html\" class=\"post-item\">...</a>">>

\* The marker once, after a container that begins like it.
IndexOne ==
    <<"<html>...<body>\n", "<div", " class=", "\"page\">", "\n">> \o marker
    \o NL \o OldEntry \o <<"\n</div>", "</div>", "</body></html>">>

\* No marker, only a container that begins like it.
IndexNone ==
    <<"<html>...<body>\n", "<div", " class=", "\"posts\">", "\n">>
    \o OldEntry \o <<"\n</div>", "</body></html>">>

\* The marker twice.
IndexTwo ==
    <<"<html>...<body>\n">> \o marker \o NL \o OldEntry \o <<"\n</div>", "\n">>
    \o marker \o <<"\n</div>", "</body></html>">>

IndexDocs == {IndexOne, IndexNone, IndexTwo}

\* The file systems a run starts from: the document present or not,
\* index.html present or not.
FileSystems ==
    LET sets == {d \cup i :
                    d \in {{}} \cup {{<<DocxPath, m>>} : m \in Docs},
                    i \in {{}} \cup {{<<IndexPath, x>>} : x \in IndexDocs}}
    IN  {[n \in {e[1] : e \in files} |-> (CHOOSE e \in files : e[1] = n)[2]] : files \in sets}

Init ==
    /\ pc = "start"
    /\ args \in [docx : {DocxPath}, date : Dates, tags : TagArgs, slug : SlugArgs]
    /\ fs \in FileSystems
    /\ md = <<>>
    /\ article = EmptyArticle
    /\ body_html = <<>>
    /\ toc = <<>>
    /\ tags = <<>>
    /\ slug = <<>>
    /\ stdout = <<>>
    /\ trace = <<>>
    /\ runs = 0
    /\ exit_code = -1

Next ==
    \/ InputNotFound
    \/ StartRun
    \/ ConvertDocx
    \/ ConvertDocxFails
    \/ ParseArticle
    \/ TitleFallback
    \/ RenderBody
    \/ RenderBodyFails
    \/ ExtractToc
    \/ MakeSlug
    \/ WritePost
    \/ UpdateIndex
    \/ RunAgain

Spec == Init /\ [][Next]_vars

(***************************************************************************)
(* parse_article on its own: every document of up to MaxLines lines drawn  *)
(* from ParseLines, in the state main is in when it calls parse_article.   *)
(***************************************************************************)
MaxLines == 3

ParseLines ==
    { <<"#", " ", "T">>,
      <<" ", "#", " ", "T">>,
      <<"#", " ", " ", "U", " ">>,
      <<"#", "#", " ", "S">>,
      <<"Z">>,
      <<"Y">>,
      <<>>,
      <<"A", "B", "S", "T", "R", "A", "C", "T", "U+FF1A", " ", "Y">>,
      <<"U+0060", "U+0060", "U+0060">> }

ParseInputs ==
    {Join(ls, NL) : ls \in UNION {[1..n -> ParseLines] : n \in 1..MaxLines}}

DefaultArgs ==
    [docx |-> DocxPath,
     date |-> <<"2", "0", "2", "5", "-", "0", "2", "-", "0", "1">>,
     tags |-> <<>>,
     slug |-> <<>>]

InitParse ==
    /\ pc = "parse"
    /\ args = DefaultArgs
    /\ md \in ParseInputs
    /\ fs = [n \in {DocxPath} |-> md]
    /\ article = EmptyArticle
    /\ body_html = <<>>
    /\ toc = <<>>
    /\ tags = <<>>
    /\ slug = <<>>
    /\ stdout = <<"processing", "parsing docx">>
    /\ trace = <<"docx_to_markdown">>
    /\ runs = 0
    /\ exit_code = -1

NextParse ==
    \/ ParseArticle
    \/ TitleFallback

SpecParse == InitParse /\ [][NextParse]_vars

(***************************************************************************)
(* slugify on its own: titles of SlugMax characters or so, and short ones, *)
(* in the state main is in when it makes the slug.                         *)
(***************************************************************************)
MaxTail == 3

SlugAlphabet == {"b", "H", "-", " ", "_", "U+6D4B"}

SlugTails == UNION {[1..n -> SlugAlphabet] : n \in 0..MaxTail}

SlugTitles ==
    {t \in {Rep("a", k) \o tail :
                k \in {0} \cup ((SlugMax - MaxTail)..SlugMax), tail \in SlugTails} :
        t # <<>> /\ Strip(t) = t}

InitSlug ==
    /\ pc = "slug"
    /\ args = DefaultArgs
    /\ \E t \in SlugTitles :
          /\ md = HeadingPrefix \o t
          /\ article = [title |-> t, abstract |-> <<>>, body_md |-> <<>>]
    /\ fs = [n \in {DocxPath} |-> md]
    /\ body_html = <<>>
    /\ toc = <<>>
    /\ tags = <<>>
    /\ slug = <<>>
    /\ stdout = <<"processing", "parsing docx", "title", "abstract",
                  "converting to HTML", "toc entries">>
    /\ trace = <<"docx_to_markdown", "parse_article", "md_to_html", "extract_toc">>
    /\ runs = 0
    /\ exit_code = -1

NextSlug == MakeSlug

SpecSlug == InitSlug /\ [][NextSlug]_vars

(***************************************************************************)
(* Properties                                                              *)
(***************************************************************************)
Count(s, c) == Cardinality({i \in DOMAIN s : s[i] = c})

IndexHtml == fs[IndexPath]

HasIndex == IndexPath \in DOMAIN fs

HasMarker == HasIndex /\ Contains(IndexHtml, marker)

\* The post file of the current run is on disk.
PostWritten == pc \in {"index", "done"}

\* The current run has rewritten index.html.
IndexWritten == pc = "done" /\ "write index.html" \in Range(trace)

PostPage == fs[PostFilename(slug)]

\* The entry of the current run, as update_index builds it.
Entry == new_item(PostFilename(slug), article.title, article.abstract, tags, args.date)

\* The entry at the top of the list: what stands between the line break
\* after the first marker and the first end of an entry.
TopEntry(html) ==
    LET rest == Drop(html, Find(html, marker) + Len(marker))
    IN  SubSeq(rest, 1, Find(rest, <<EntryClose>>))

\* C1: update_index on an index document that holds the marker exactly once
\* writes the original document with the new entry inserted right after the
\* marker, on a line of its own: the text up to and including the marker and
\* the text after it are kept unchanged and in order.
C1_SpliceKeepsDocument ==
    [][(pc = "index" /\ HasIndex /\ Cardinality(Occurrences(IndexHtml, marker)) = 1)
        => LET old   == IndexHtml
               new   == fs'[IndexPath]
               cut   == Find(old, marker) + Len(marker) - 1
               added == Len(new) - Len(old)
           IN  /\ added = 1 + Len(Entry)
               /\ SubSeq(new, 1, cut) = SubSeq(old, 1, cut)
               /\ SubSeq(new, cut + 1, cut + added) = NL \o Entry
               /\ Drop(new, cut + added) = Drop(old, cut)]_vars

C1_Witness ==
    /\ IndexWritten
    /\ Cardinality(Occurrences(IndexHtml, marker)) = 1
    /\ Contains(IndexHtml, marker \o NL \o Entry \o NL \o OldEntry)

RECURSIVE Copies(_, _)
Copies(item, n) == IF n = 0 THEN <<>> ELSE NL \o item \o Copies(item, n - 1)

RawSpecial == {"<", ">", "&", "\""}

\* The character an entity stands for.
Unescaped(t) ==
    CASE t = "&amp;"  -> "&"
      [] t = "&lt;"   -> "<"
      [] t = "&gt;"   -> ">"
      [] t = "&quot;" -> "\""
      [] t = "&#x27;" -> "'"
      [] OTHER        -> t

\* text stands in doc with every special character as an entity.
AppearsEscaped(doc, text) ==
    \E i \in 1..(Len(doc) + 1 - Len(text)) :
        LET r == SubSeq(doc, i, i + Len(text) - 1)
        IN  /\ [k \in DOMAIN r |-> Unescaped(r[k])] = text
            /\ Range(r) \cap RawSpecial = {}

\* C6: in the post page and in the index entry the title, the abstract (the
\* excerpt) and every tag stand in escaped form, and no raw <, >, & or "
\* comes from them: the page holds no such character beyond those of the
\* converted body, the entry none beyond those of the file name.
C6_UserTextEscaped ==
    /\ PostWritten =>
         /\ \A c \in RawSpecial : Count(PostPage, c) = Count(HtmlTokens(body_html), c)
         /\ AppearsEscaped(PostPage, article.title)
         /\ AppearsEscaped(PostPage, article.abstract)
         /\ \A i \in DOMAIN tags : AppearsEscaped(PostPage, tags[i])
    /\ IndexWritten =>
         LET e == TopEntry(IndexHtml)
         IN  /\ \A c \in RawSpecial : Count(e, c) = Count(slug, c)
             /\ AppearsEscaped(e, article.title)
             /\ AppearsEscaped(e, Take(article.abstract, ExcerptMax))
             /\ \A i \in DOMAIN tags : AppearsEscaped(e, tags[i])

C6_Witness ==
    /\ IndexWritten
    /\ {"<", ">", "&", "\""} \subseteq Range(article.title)
    /\ "<" \in Range(article.abstract)
    /\ \E i \in DOMAIN tags : "\"" \in Range(tags[i])
    /\ Contains(PostPage, <<"&lt;", "b", "&gt;", "&amp;", "&quot;", "Q", "&quot;">>)

IsPostChip(t) == t \in {TagChipHl, TagChipPlain}

IsIndexChip(t) == t \in {PostTagFeatured, PostTagPlain}

\* C7: the post page gives the highlight class to the first two tags at
\* most, a tag at position 3 or later being rendered without it, and the
\* index entry does the same.
C7_OnlyFirstTwoHighlighted ==
    /\ PostWritten =>
         LET chips == SelectSeq(PostPage, IsPostChip)
         IN  /\ Len(chips) = Len(tags)
             /\ \A i \in DOMAIN chips : i > FeaturedTags => chips[i] = TagChipPlain
    /\ IndexWritten =>
         LET chips == SelectSeq(TopEntry(IndexHtml), IsIndexChip)
         IN  /\ Len(chips) = Len(tags)
             /\ \A i \in DOMAIN chips : i > FeaturedTags => chips[i] = PostTagPlain

\* The text of the post-date element of an entry.
PostDateText(e) ==
    SubSeq(e, Find(e, <<PostDateOpen>>) + 1, Find(e, <<PostDateClose>>) - 1)

\* "MM U+00B7 DD" of a date YYYY-MM-DD.
MonthDay(d) == SubSeq(d, 6, 7) \o MidDot \o SubSeq(d, 9, 10)

\* C8: for a date YYYY-MM-DD the post-date element of the new index entry
\* reads exactly "MM U+00B7 DD": no year, no separator in front.
C8_EntryDateIsMonthDay ==
    IndexWritten => PostDateText(TopEntry(IndexHtml)) = MonthDay(args.date)

StepOrder ==
    <<"docx_to_markdown", "parse_article", "md_to_html", "extract_toc",
      "generate_post_html", "write post", "update_index", "write index.html">>

Failures == {"docx_to_markdown: CalledProcessError", "md_to_html: CalledProcessError"}

Writes == {"write post", "write index.html"}

\* The calls made so far, a failed call counted as the call.
Called(tr) ==
    [i \in DOMAIN tr |->
        CASE tr[i] = "docx_to_markdown: CalledProcessError" -> "docx_to_markdown"
          [] tr[i] = "md_to_html: CalledProcessError"       -> "md_to_html"
          [] OTHER                                          -> tr[i]]

\* C9: the steps run in the order Converter, Parser, Renderer, TOC
\* Extractor, Composer, Index Updater; a run whose source path is missing or
\* whose conversion (to markdown, or to HTML) fails ends at once, having
\* written neither a post file nor index.html; index.html is only written
\* once the post file of the run has been written.
C9_SequentialAndFailFast ==
    /\ [](/\ StartsWith(StepOrder, Called(trace))
          /\ (pc = "failed" \/ Range(trace) \cap Failures # {})
                => /\ pc = "failed"
                   /\ exit_code = 1
                   /\ Range(trace) \cap Writes = {}
          /\ "write index.html" \in Range(trace)
                => /\ "write post" \in Range(trace)
                   /\ PostFilename(slug) \in DOMAIN fs)
    /\ [][/\ fs' # fs => pc \in {"compose", "index"} /\ Range(trace') \cap Writes # {}
          /\ (IndexPath \in DOMAIN fs') # HasIndex => FALSE
          /\ (HasIndex /\ fs'[IndexPath] # IndexHtml)
                => pc = "index" /\ "write post" \in Range(trace)
          /\ pc' = "failed" => fs' = fs /\ pc \in {"start", "convert", "render"}]_vars

C9_Witness ==
    /\ pc = "failed"
    /\ runs = 1
    /\ trace = <<"docx_to_markdown", "parse_article", "md_to_html: CalledProcessError">>
    /\ HasMarker

(***************************************************************************)
(* Properties of parse_article (under SpecParse) and slugify (SpecSlug)    *)
(***************************************************************************)
PadMax == 2

TitleNames == {<<"T">>, <<"U">>}

\* line is "# " and name, with blanks between the two and after name.
IsTitleLine(line, name) ==
    \E a \in 0..PadMax, b \in 0..PadMax :
        line = HeadingPrefix \o Rep(" ", a) \o name \o Rep(" ", b)

RawLines == Split(md, NL)

FirstOf(S) == CHOOSE i \in S : \A j \in S : i <= j

\* The lines as parse_article sees them: the whitespace in front of the
\* document's first non-blank line goes with the strip of the document.
SeenLine(i) ==
    LET filled == {j \in DOMAIN RawLines : ~IsBlank(RawLines[j])}
    IN  IF filled # {} /\ i = FirstOf(filled)
        THEN LStrip(RawLines[i], Whitespace)
        ELSE RawLines[i]

\* The result of parse_article is in article.
Parsed == pc = "title"

\* C5 as stated: the title is that of the first line that reads "# Title"
\* once the whitespace around it is removed.
C5_TitleAnyWhitespace ==
    Parsed =>
        LET H == {i \in DOMAIN RawLines :
                    \E n \in TitleNames : IsTitleLine(LStrip(RawLines[i], Whitespace), n)}
        IN  H # {} => IsTitleLine(LStrip(RawLines[FirstOf(H)], Whitespace), article.title)

\* C5, amended: the title comes from the first line that begins with "# "
\* (whitespace in front of it allowed on the document's first non-blank
\* line only); when that line is "# Title", with blanks between the prefix
\* and Title or after Title, the title is exactly Title.
C5_TitleOfFirstHeadingLine ==
    Parsed =>
        LET H == {i \in DOMAIN RawLines : StartsWith(SeenLine(i), HeadingPrefix)}
        IN  \A n \in TitleNames :
                (H # {} /\ IsTitleLine(SeenLine(FirstOf(H)), n)) => article.title = n

C5_Witness ==
    /\ Parsed
    /\ md = <<"Z", "\n", "#", " ", " ", "U", " ", "\n", "#", " ", "T">>
    /\ article.title = <<"U">>

MarkChars == {"Z", "Y", "U"}

\* C10: when no line of the stripped input starts with "# ", the title is
\* empty and the abstract and the body are made of the second line onward:
\* nothing of the first line is in them, and the marked characters of the
\* other lines all are.
C10_NoHeadingDropsFirstLine ==
    LET lines == Split(Strip(md), NL)
    IN  (Parsed /\ \A i \in DOMAIN lines : ~StartsWith(lines[i], HeadingPrefix))
            => /\ article.title = <<>>
               /\ \A c \in MarkChars :
                     Count(article.abstract \o article.body_md, c)
                        = Count(Join(Tail(lines), NL), c)

C10_Witness ==
    /\ Parsed
    /\ md = <<"Z", "\n", "\n", "Y">>
    /\ article = [title |-> <<>>, abstract |-> <<"Y">>, body_md |-> <<>>]

\* The slug made by slugify is in slug.
Slugged == pc = "compose" /\ args.slug = <<>>

\* C4: slugify is idempotent, and its result holds only word characters,
\* ideographs and hyphens, neither begins nor ends with a hyphen and is at
\* most 60 characters long, also when the slug is cut at 60 characters.
C4_SlugWellFormed ==
    Slugged =>
        /\ slugify(slug) = slug
        /\ \A c \in Range(slug) : IsWord(c) \/ c = "-"
        /\ slug # <<>> => slug[1] # "-" /\ slug[Len(slug)] # "-"
        /\ Len(slug) <= SlugMax

====
